---- MODULE Spec2Model ----
(***************************************************************************)
(* Profile store and apply dispatch of src-tauri/src/main.rs.              *)
(*                                                                         *)
(* The store is the in-memory Vec<Profile> behind AppState.profiles and    *)
(* the JSON file AppState.profiles_file.  The four store commands are      *)
(* save_profile, get_profiles, delete_profile and apply_profile.           *)
(*                                                                         *)
(* Spec     : the commands invoked one at a time (each action is one whole *)
(*            command, from lock() to return).                             *)
(* ConcSpec : the commands invoked by concurrent tasks, split at the       *)
(*            Mutex acquisition, the in-memory step, the file step and     *)
(*            the return (guard drop).                                     *)
(***************************************************************************)
EXTENDS Integers, Sequences, FiniteSets, TLC

VARIABLES
    platform,   \* the cfg(target_os) the binary was built for
    profiles,   \* AppState.profiles: the Vec<Profile> inside the Mutex
    file,       \* the content of AppState.profiles_file on disk
    last,       \* the most recent command: its arguments, locals and result
    scen,       \* progress through the save/get/delete/get/apply scenario
    lock,       \* the Mutex: 0 when free, else the task holding the guard
    task,       \* ConcSpec: per task, the command in progress and its locals
    calls       \* ConcSpec: the commands invoked so far

vars == <<platform, profiles, file, last, scen, lock, task, calls>>

(***************************************************************************)
(* Bounds of the model.                                                    *)
(***************************************************************************)
\* longest list of saved profiles found in the backing file at startup
MaxFileLen == 1
\* commands the concurrent tasks invoke in ConcSpec, all told
MaxCalls == 3

(***************************************************************************)
(* Data: Option<String>, DisplayInfo, AudioSettings, Profile.              *)
(***************************************************************************)
None == [tag |-> "None"]
Some(s) == [tag |-> "Some", val |-> s]

\* struct DisplayInfo; scale_factor (f64) is kept in tenths
DisplayInfo(id, name, width, height, x, y, scale, primary, rotation) ==
    [id |-> id, name |-> name, width |-> width, height |-> height,
     x |-> x, y |-> y, scale_factor |-> scale, is_primary |-> primary,
     rotation |-> rotation]

\* struct AudioSettings
AudioSettings(out, inp, ovol, ivol) ==
    [output_device |-> out, input_device |-> inp,
     output_volume |-> ovol, input_volume |-> ivol]

\* struct Profile
Profile(id, name, displays, audio, created) ==
    [id |-> id, name |-> name, displays |-> displays,
     audio_settings |-> audio, created_at |-> created]

DisplayMain == DisplayInfo(1, "Built-in", 1920, 1080, 0, 0, 10, TRUE, 0)
DisplayLeft == DisplayInfo(2, "External", 2560, 1440, -2560, 0, 15, FALSE, 90)

\* the profile ids the GUI shell uses
Ids == {"a", "b"}

\* the Profile values the GUI shell hands to save_profile
ProfileInputs ==
    { Profile("a", "Work", <<DisplayMain, DisplayLeft>>,
              AudioSettings(Some("Speakers"), None, 50, 50), "t1"),
      Profile("a", "Home", <<>>,
              AudioSettings(None, Some("Mic"), 0, 100), "t2"),
      Profile("b", "Work", <<DisplayMain>>,
              AudioSettings(Some("Headset"), Some("Mic"), 30, 70), "t3") }

RECURSIVE SeqsUpTo(_, _)
\* all sequences over S of length at most n
SeqsUpTo(S, n) ==
    IF n = 0 THEN {<<>>}
    ELSE LET shorter == SeqsUpTo(S, n - 1)
         IN shorter \cup {Append(s, e) : s \in shorter, e \in S}

(***************************************************************************)
(* JSON text, as the tree of tokens serde_json writes and reads.           *)
(***************************************************************************)
JNull == [t |-> "null"]
JBool(b) == [t |-> "bool", b |-> b]
JInt(n) == [t |-> "int", n |-> n]
JFloat(f) == [t |-> "float", f |-> f]
JStr(s) == [t |-> "string", s |-> s]
JArr(a) == [t |-> "array", a |-> a]
JObj(o) == [t |-> "object", o |-> o]
\* text that is no JSON document (empty, truncated, garbage)
JInvalid == [t |-> "invalid"]

Ok(v) == [ok |-> TRUE, val |-> v]
Err(e) == [ok |-> FALSE, err |-> e]

\* ---- Serialize (derive(Serialize)) ----
\* None written as an empty string instead of null
SerOptStringEmpty(o) == IF o.tag = "Some" THEN JStr(o.val) ELSE JStr("")

SerOptString(o) == IF o.tag = "Some" THEN JStr(o.val) ELSE JNull

SerDisplayInfo(d) ==
    JObj([id |-> JInt(d.id), name |-> JStr(d.name),
          width |-> JInt(d.width), height |-> JInt(d.height),
          x |-> JInt(d.x), y |-> JInt(d.y),
          scale_factor |-> JFloat(d.scale_factor),
          is_primary |-> JBool(d.is_primary),
          rotation |-> JInt(d.rotation)])

SerAudioSettings(a) ==
    JObj([output_device |-> SerOptString(a.output_device),
          input_device |-> SerOptString(a.input_device),
          output_volume |-> JInt(a.output_volume),
          input_volume |-> JInt(a.input_volume)])

SerProfile(p) ==
    JObj([id |-> JStr(p.id), name |-> JStr(p.name),
          displays |-> JArr([i \in 1..Len(p.displays) |->
                                SerDisplayInfo(p.displays[i])]),
          audio_settings |-> SerAudioSettings(p.audio_settings),
          created_at |-> JStr(p.created_at)])

\* serde_json::to_string_pretty(profiles)
to_string_pretty(ps) == JArr([i \in 1..Len(ps) |-> SerProfile(ps[i])])

\* ---- Deserialize (derive(Deserialize)) ----
Has(j, k) == j.t = "object" /\ k \in DOMAIN j.o

\* every integer of the model lies within 32 bits; u32 refuses a negative one
IsU32(j) == j.t = "int" /\ j.n >= 0
IsI32(j) == j.t = "int"
IsF64(j) == j.t \in {"int", "float"}
IsString(j) == j.t = "string"
IsBool(j) == j.t = "bool"
IsOptString(j) == j.t \in {"null", "string"}

DeF64(j) == IF j.t = "float" THEN j.f ELSE j.n * 10
DeOptString(j) == IF j.t = "string" THEN Some(j.s) ELSE None

IsDisplayInfo(j) ==
    /\ \A k \in {"id", "name", "width", "height", "x", "y",
                 "scale_factor", "is_primary", "rotation"} : Has(j, k)
    /\ IsU32(j.o.id) /\ IsString(j.o.name)
    /\ IsU32(j.o.width) /\ IsU32(j.o.height)
    /\ IsI32(j.o.x) /\ IsI32(j.o.y)
    /\ IsF64(j.o.scale_factor) /\ IsBool(j.o.is_primary)
    /\ IsU32(j.o.rotation)

DeDisplayInfo(j) ==
    DisplayInfo(j.o.id.n, j.o.name.s, j.o.width.n, j.o.height.n,
                j.o.x.n, j.o.y.n, DeF64(j.o.scale_factor),
                j.o.is_primary.b, j.o.rotation.n)

\* a missing Option field deserializes as None
IsAudioSettings(j) ==
    /\ j.t = "object"
    /\ Has(j, "output_device") => IsOptString(j.o.output_device)
    /\ Has(j, "input_device") => IsOptString(j.o.input_device)
    /\ Has(j, "output_volume") /\ IsU32(j.o.output_volume)
    /\ Has(j, "input_volume") /\ IsU32(j.o.input_volume)

DeAudioSettings(j) ==
    AudioSettings(
        IF Has(j, "output_device") THEN DeOptString(j.o.output_device) ELSE None,
        IF Has(j, "input_device") THEN DeOptString(j.o.input_device) ELSE None,
        j.o.output_volume.n, j.o.input_volume.n)

IsProfile(j) ==
    /\ \A k \in {"id", "name", "displays", "audio_settings", "created_at"} :
          Has(j, k)
    /\ IsString(j.o.id) /\ IsString(j.o.name) /\ IsString(j.o.created_at)
    /\ j.o.displays.t = "array"
    /\ \A i \in 1..Len(j.o.displays.a) : IsDisplayInfo(j.o.displays.a[i])
    /\ IsAudioSettings(j.o.audio_settings)

DeProfile(j) ==
    Profile(j.o.id.s, j.o.name.s,
            [i \in 1..Len(j.o.displays.a) |-> DeDisplayInfo(j.o.displays.a[i])],
            DeAudioSettings(j.o.audio_settings), j.o.created_at.s)

\* serde_json::from_str::<Vec<Profile>>(content)
from_str(j) ==
    IF j.t = "array" /\ \A i \in 1..Len(j.a) : IsProfile(j.a[i])
    THEN Ok([i \in 1..Len(j.a) |-> DeProfile(j.a[i])])
    ELSE Err("Failed to parse profiles")

(***************************************************************************)
(* The backing file and AppState::load_profiles / save_profiles.           *)
(***************************************************************************)
FileAbsent == [kind |-> "absent"]
\* exists, but fs::read_to_string fails on it (not UTF-8, not a regular file)
FileUnreadable == [kind |-> "unreadable"]
FileText(j) == [kind |-> "text", json |-> j]

\* how one call of save_profiles fares with the file system
IoOutcomes == {"ok", "mkdir_err", "create_err", "write_err"}

load_profiles(f) ==
    IF f.kind # "absent"
    THEN IF f.kind = "unreadable"
         THEN Err("Failed to read profiles file")
         ELSE from_str(f.json)
    ELSE Ok(<<>>)

\* fs::write is File::create (truncate) followed by write_all: a failure of
\* write_all leaves a truncated file behind.
save_profiles(f, ps, io) ==
    IF io = "mkdir_err"
    THEN [res |-> Err("Failed to create profiles directory"), file |-> f]
    ELSE LET content == to_string_pretty(ps)
         IN CASE io = "create_err" ->
                   [res |-> Err("Failed to write profiles file"), file |-> f]
              [] io = "write_err" ->
                   [res |-> Err("Failed to write profiles file"),
                    file |-> FileText(JInvalid)]
              [] OTHER -> [res |-> Ok(<<>>), file |-> FileText(content)]

(***************************************************************************)
(* Vec operations the commands use.                                        *)
(***************************************************************************)
\* the search started one record too late
PositionByIdSkipFirst(ps, id) ==
    IF \E i \in 2..Len(ps) : ps[i].id = id
    THEN CHOOSE i \in 2..Len(ps) :
            /\ ps[i].id = id
            /\ \A j \in 2..(i - 1) : ps[j].id # id
    ELSE 0

\* profiles.iter().position(|p| p.id == id): first match, 0 for None
PositionById(ps, id) ==
    IF \E i \in 1..Len(ps) : ps[i].id = id
    THEN CHOOSE i \in 1..Len(ps) :
            /\ ps[i].id = id
            /\ \A j \in 1..(i - 1) : ps[j].id # id
    ELSE 0

\* push without looking for the id
UpsertAlwaysPush(ps, profile) == Append(ps, profile)

\* drop the old record and push the new one at the end
UpsertMoveToEnd(ps, profile) ==
    Append(SelectSeq(ps, LAMBDA p : p.id # profile.id), profile)

\* the if-let of save_profile: profiles[pos] = profile, else push
Upsert(ps, profile) ==
    LET pos == PositionById(ps, profile.id)
    IN IF pos # 0 THEN [ps EXCEPT ![pos] = profile] ELSE Append(ps, profile)

\* retain with the predicate inverted
RetainMatching(ps, id) == SelectSeq(ps, LAMBDA p : p.id = id)

\* profiles.retain(|p| p.id != profile_id)
Retain(ps, id) == SelectSeq(ps, LAMBDA p : p.id # id)

(***************************************************************************)
(* Apply dispatch.                                                         *)
(***************************************************************************)
Platforms == {"macos", "windows", "other"}

\* how Command::output() of one helper fares
Outcomes == {"exit_ok", "exit_fail", "spawn_err"}

\* the helpers a build can run, and so the outcomes there are to draw
DisplayOutcomes(pf) == IF pf = "macos" THEN Outcomes ELSE {"exit_ok"}
AudioOutcomes(pf) == IF pf \in {"macos", "windows"} THEN Outcomes ELSE {"exit_ok"}
PowershellOutcomes(pf) == IF pf = "windows" THEN Outcomes ELSE {"exit_ok"}

Env(io, dOut, aOut, psOut) ==
    [io |-> io, dOut |-> dOut, aOut |-> aOut, psOut |-> psOut]

Effect(res, spawned, warns) ==
    [res |-> res, spawned |-> spawned, warns |-> warns]

\* the format!("id:{} res:{}x{} origin:({},{}) degree:{}") argument
DisplayArg(d) ==
    [id |-> d.id, res |-> <<d.width, d.height>>,
     origin |-> <<d.x, d.y>>, degree |-> d.rotation]

apply_display_settings_macos(displays, out) ==
    LET args == [i \in 1..Len(displays) |-> DisplayArg(displays[i])]
        cmd == <<[cmd |-> "displayplacer", args |-> args]>>
    IN CASE out = "exit_ok" -> Effect(Ok(<<>>), cmd, 0)
         [] out = "exit_fail" -> Effect(Err("display settings failed"), cmd, 0)
         [] OTHER -> Effect(Err("displayplacer exec failed"), cmd, 0)

apply_display_settings_windows(displays) == Effect(Ok(<<>>), <<>>, 1)

apply_display_settings(pf, displays, out) ==
    CASE pf = "macos" -> apply_display_settings_macos(displays, out)
      [] pf = "windows" -> apply_display_settings_windows(displays)
      [] OTHER -> Effect(Ok(<<>>), <<>>, 0)

apply_audio_settings_macos(audio, out) ==
    IF audio.output_device.tag = "Some"
    THEN LET cmd == <<[cmd |-> "SwitchAudioSource",
                       args |-> <<"-s", audio.output_device.val>>]>>
         IN CASE out = "exit_ok" -> Effect(Ok(<<>>), cmd, 0)
              [] out = "exit_fail" ->
                    Effect(Err("audio output device failed"), cmd, 0)
              [] OTHER -> Effect(Err("SwitchAudioSource exec failed"), cmd, 0)
    ELSE Effect(Ok(<<>>), <<>>, 0)

apply_audio_settings_windows(audio, out, psOut) ==
    IF audio.output_device.tag = "Some"
    THEN LET dev == audio.output_device.val
             nircmd == [cmd |-> "nircmd",
                        args |-> <<"setdefaultsounddevice", dev>>]
             powershell == [cmd |-> "powershell",
                            args |-> <<"-Command", "Set-AudioDevice", dev>>]
         IN CASE out = "exit_ok" -> Effect(Ok(<<>>), <<nircmd>>, 0)
              [] out = "exit_fail" ->
                    IF psOut = "exit_ok"
                    THEN Effect(Ok(<<>>), <<nircmd, powershell>>, 0)
                    ELSE Effect(Ok(<<>>), <<nircmd, powershell>>, 1)
              [] OTHER -> Effect(Ok(<<>>), <<nircmd>>, 1)
    ELSE Effect(Ok(<<>>), <<>>, 0)

apply_audio_settings(pf, audio, out, psOut) ==
    CASE pf = "macos" -> apply_audio_settings_macos(audio, out)
      [] pf = "windows" -> apply_audio_settings_windows(audio, out, psOut)
      [] OTHER -> Effect(Ok(<<>>), <<>>, 0)

NotFound == "profile not found"

(***************************************************************************)
(* The four store commands, as functions of the store st = [profiles,      *)
(* file] they find when they take the lock.  Each yields the store it      *)
(* leaves, its result, and what it did on the way.                         *)
(***************************************************************************)
Store(ps, f) == [profiles |-> ps, file |-> f]

Done(ps, f, res, pos, removed, steps, spawned, warns) ==
    [profiles |-> ps, file |-> f, res |-> res, pos |-> pos,
     removed |-> removed, steps |-> steps, spawned |-> spawned,
     warns |-> warns]

save_profile(st, profile, io) ==
    LET pos == PositionById(st.profiles, profile.id)
        mem == Upsert(st.profiles, profile)
        w == save_profiles(st.file, mem, io)
    IN Done(mem, w.file, w.res, pos, 0, <<>>, <<>>, 0)

get_profiles(st) ==
    LET loaded == load_profiles(st.file)
    IN IF loaded.ok
       THEN Done(loaded.val, st.file, Ok(loaded.val), 0, 0, <<>>, <<>>, 0)
       ELSE Done(st.profiles, st.file, loaded, 0, 0, <<>>, <<>>, 0)

\* delete that forgets to persist
delete_profile_unsaved(st, id, io) ==
    LET mem == Retain(st.profiles, id)
    IN Done(mem, st.file, Ok(<<>>), 0, Len(st.profiles) - Len(mem),
            <<>>, <<>>, 0)

delete_profile(st, id, io) ==
    LET mem == Retain(st.profiles, id)
        w == save_profiles(st.file, mem, io)
    IN Done(mem, w.file, w.res, 0, Len(st.profiles) - Len(mem),
            <<>>, <<>>, 0)

\* the display step's error dropped instead of returned
apply_found_no_early_return(st, pf, pos, dOut, aOut, psOut) ==
    LET profile == st.profiles[pos]
        d == apply_display_settings(pf, profile.displays, dOut)
        a == apply_audio_settings(pf, profile.audio_settings, aOut, psOut)
    IN Done(st.profiles, st.file, a.res, pos, 0,
            <<[step |-> "display", input |-> profile.displays, ok |-> d.res.ok],
              [step |-> "audio", input |-> profile.audio_settings,
               ok |-> a.res.ok]>>,
            d.spawned \o a.spawned, d.warns + a.warns)

\* the Some(profile) arm of apply_profile: display step, then audio step,
\* each `?` returning the step's error at once
apply_found(st, pf, pos, dOut, aOut, psOut) ==
    LET profile == st.profiles[pos]
        d == apply_display_settings(pf, profile.displays, dOut)
        dStep == [step |-> "display", input |-> profile.displays,
                  ok |-> d.res.ok]
    IN IF ~d.res.ok
       THEN Done(st.profiles, st.file, d.res, pos, 0,
                 <<dStep>>, d.spawned, d.warns)
       ELSE LET a == apply_audio_settings(pf, profile.audio_settings,
                                          aOut, psOut)
                aStep == [step |-> "audio", input |-> profile.audio_settings,
                          ok |-> a.res.ok]
            IN Done(st.profiles, st.file, a.res, pos, 0,
                    <<dStep, aStep>>, d.spawned \o a.spawned,
                    d.warns + a.warns)

\* an unknown id applied as the first record
apply_profile_first(st, pf, id, dOut, aOut, psOut) ==
    LET pos == PositionById(st.profiles, id)
    IN IF pos # 0 \/ st.profiles # <<>>
       THEN apply_found(st, pf, IF pos # 0 THEN pos ELSE 1, dOut, aOut, psOut)
       ELSE Done(st.profiles, st.file, Err(NotFound), 0, 0, <<>>, <<>>, 0)

apply_profile(st, pf, id, dOut, aOut, psOut) ==
    LET pos == PositionById(st.profiles, id)
    IN IF pos # 0
       THEN apply_found(st, pf, pos, dOut, aOut, psOut)
       ELSE Done(st.profiles, st.file, Err(NotFound), 0, 0, <<>>, <<>>, 0)

(***************************************************************************)
(* Startup (main's setup closure).                                         *)
(***************************************************************************)
\* a profile as a user would type it: no output_device key, scale 1 not 1.0
HandWritten ==
    JObj([id |-> JStr("b"), name |-> JStr("Desk"),
          displays |-> JArr(<<JObj([id |-> JInt(1), name |-> JStr("Built-in"),
                                    width |-> JInt(1920), height |-> JInt(1080),
                                    x |-> JInt(0), y |-> JInt(0),
                                    scale_factor |-> JInt(1),
                                    is_primary |-> JBool(TRUE),
                                    rotation |-> JInt(0)])>>),
          audio_settings |-> JObj([input_device |-> JNull,
                                   output_volume |-> JInt(10),
                                   input_volume |-> JInt(10)]),
          created_at |-> JStr("t0")])

\* a file in which a record was copied and renamed, its id left as it was
CopiedRecord ==
    LET p == CHOOSE q \in ProfileInputs : q.id = "a" /\ q.name = "Work"
    IN to_string_pretty(<<p, [p EXCEPT !.name = "Copy"]>>)

\* what profiles.json can hold when the application starts: nothing, bytes
\* that are no text, text that is no list of profiles, lists edited by
\* hand, and lists a previous run saved
InitFiles ==
    {FileAbsent, FileUnreadable, FileText(JInvalid),
     FileText(JObj([profiles |-> JArr(<<>>)])),
     FileText(JArr(<<JObj([id |-> JStr("a")])>>)),
     FileText(JArr(<<HandWritten>>)),
     FileText(CopiedRecord)}
    \cup {FileText(to_string_pretty(ps)) : ps \in SeqsUpTo(ProfileInputs, MaxFileLen)}

\* if let Ok(profiles) = app_state.load_profiles() { *lock = profiles }
Startup(f) ==
    LET loaded == load_profiles(f)
    IN IF loaded.ok THEN loaded.val ELSE <<>>

Tasks == {1, 2}

NoArg == [id |-> ""]
NoEnv == Env("ok", "exit_ok", "exit_ok", "exit_ok")

NoCall ==
    [op |-> "none", arg |-> NoArg, env |-> NoEnv,
     res |-> Ok(<<>>), pos |-> 0,
     removed |-> 0, steps |-> <<>>, spawned |-> <<>>, warns |-> 0,
     rep |-> FALSE]

IdleTask ==
    [pc |-> "idle", op |-> "none", arg |-> NoArg, env |-> NoEnv,
     snap |-> Store(<<>>, FileAbsent), rec |-> NoArg, res |-> Ok(<<>>)]

Init ==
    /\ platform \in Platforms
    /\ file \in InitFiles
    /\ profiles = Startup(file)
    /\ last = NoCall
    /\ scen = 0
    /\ lock = 0
    /\ task = [t \in Tasks |-> IdleTask]
    /\ calls = 0

(***************************************************************************)
(* Spec: one command at a time.                                            *)
(***************************************************************************)
\* Progress through the scenario: save_profile(id "a") on an empty store,
\* get_profiles, delete_profile("a"), get_profiles, apply_profile("a").
ScenNext(op, id, ok) ==
    CASE scen = 1 /\ op = "get_profiles" -> 2
      [] scen = 2 /\ op = "delete_profile" /\ id = "a" /\ ok -> 3
      [] scen = 3 /\ op = "get_profiles" -> 4
      [] scen = 4 /\ op = "apply_profile" /\ id = "a" -> 5
      [] op = "save_profile" /\ id = "a" /\ ok /\ profiles = <<>> -> 1
      [] OTHER -> 0

\* a command returns: the store it leaves and the record of the call
Returns(op, arg, env, r) ==
    /\ profiles' = r.profiles
    /\ file' = r.file
    /\ last' = [op |-> op, arg |-> arg, env |-> env, res |-> r.res,
                pos |-> r.pos, removed |-> r.removed, steps |-> r.steps,
                spawned |-> r.spawned, warns |-> r.warns,
                rep |-> (last.op = op /\ last.arg = arg /\ last.res.ok)]
    /\ scen' = ScenNext(op, arg.id, r.res.ok)
    /\ UNCHANGED <<platform, lock, task, calls>>

SaveProfile ==
    \E profile \in ProfileInputs, io \in IoOutcomes :
        Returns("save_profile", profile, Env(io, "exit_ok", "exit_ok", "exit_ok"),
                save_profile(Store(profiles, file), profile, io))

GetProfiles ==
    Returns("get_profiles", NoArg, NoEnv, get_profiles(Store(profiles, file)))

DeleteProfile ==
    \E id \in Ids, io \in IoOutcomes :
        Returns("delete_profile", [id |-> id],
                Env(io, "exit_ok", "exit_ok", "exit_ok"),
                delete_profile(Store(profiles, file), id, io))

ApplyProfile ==
    \E id \in Ids, dOut \in DisplayOutcomes(platform),
       aOut \in AudioOutcomes(platform), psOut \in PowershellOutcomes(platform) :
        Returns("apply_profile", [id |-> id], Env("ok", dOut, aOut, psOut),
                apply_profile(Store(profiles, file), platform, id,
                              dOut, aOut, psOut))

Next == SaveProfile \/ GetProfiles \/ DeleteProfile \/ ApplyProfile

Spec == Init /\ [][Next]_vars

(***************************************************************************)
(* ConcSpec: the commands run as concurrent tasks.  A task's steps are the *)
(* lock() call, each access of the collection or the file, each apply      *)
(* step, and the return, where the MutexGuard is dropped.                  *)
(***************************************************************************)
\* what profiles.json holds at startup in ConcSpec
ConcInitFiles ==
    {FileAbsent, FileText(JInvalid),
     FileText(to_string_pretty(
        <<CHOOSE p \in ProfileInputs : p.id = "b">>))}

\* the Profile values the GUI shell saves in ConcSpec: two versions of "a"
ConcProfileInputs == {p \in ProfileInputs : p.id = "a"}

ConcInit ==
    /\ platform \in Platforms
    /\ file \in ConcInitFiles
    /\ profiles = Startup(file)
    /\ last = NoCall
    /\ scen = 0
    /\ lock = 0
    /\ task = [t \in Tasks |-> IdleTask]
    /\ calls = 0

\* Mutex::lock() returns only when no other guard is alive
LockFreeAlways == TRUE

LockFree == lock = 0

\* the first step of each command's body
FirstPc(op) ==
    CASE op = "save_profile" -> "mutate"
      [] op = "delete_profile" -> "mutate"
      [] op = "get_profiles" -> "load"
      [] OTHER -> "find"

Set(t, fields) == task' = [task EXCEPT ![t] = fields]

SharedUnchanged == UNCHANGED <<platform, last, scen>>

\* the GUI shell invokes a command; the task is about to call lock()
Invoke(t) ==
    /\ task[t].pc = "idle"
    /\ calls < MaxCalls
    /\ \E op \in {"save_profile", "get_profiles", "delete_profile",
                  "apply_profile"} :
         \E arg \in (CASE op = "save_profile" -> ConcProfileInputs
                       [] op = "get_profiles" -> {NoArg}
                       [] OTHER -> {[id |-> id] : id \in Ids}) :
            Set(t, [IdleTask EXCEPT !.pc = "lock", !.op = op, !.arg = arg])
    /\ calls' = calls + 1
    /\ UNCHANGED <<profiles, file, lock>>
    /\ SharedUnchanged

\* let profiles = state.profiles.lock().unwrap()
Lock(t) ==
    /\ task[t].pc = "lock"
    /\ LockFree
    /\ lock' = t
    /\ Set(t, [task[t] EXCEPT !.pc = FirstPc(task[t].op),
                              !.snap = Store(profiles, file)])
    /\ UNCHANGED <<profiles, file, calls>>
    /\ SharedUnchanged

\* save_profile: the upsert; delete_profile: the retain
Mutate(t) ==
    /\ task[t].pc = "mutate"
    /\ profiles' = IF task[t].op = "save_profile"
                   THEN Upsert(profiles, task[t].arg)
                   ELSE Retain(profiles, task[t].arg.id)
    /\ Set(t, [task[t] EXCEPT !.pc = "persist"])
    /\ UNCHANGED <<file, lock, calls>>
    /\ SharedUnchanged

\* state.save_profiles(&profiles)?
Persist(t) ==
    /\ task[t].pc = "persist"
    /\ \E io \in IoOutcomes :
         LET w == save_profiles(file, profiles, io)
         IN /\ file' = w.file
            /\ Set(t, [task[t] EXCEPT !.pc = "ret", !.res = w.res,
                                      !.env = Env(io, "exit_ok", "exit_ok",
                                                  "exit_ok")])
    /\ UNCHANGED <<profiles, lock, calls>>
    /\ SharedUnchanged

\* get_profiles: let loaded_profiles = state.load_profiles()?
Load(t) ==
    /\ task[t].pc = "load"
    /\ LET loaded == load_profiles(file)
       IN Set(t, [task[t] EXCEPT !.pc = IF loaded.ok THEN "assign" ELSE "ret",
                                 !.res = loaded])
    /\ UNCHANGED <<profiles, file, lock, calls>>
    /\ SharedUnchanged

\* get_profiles: *profiles = loaded_profiles; Ok(profiles.clone())
Assign(t) ==
    /\ task[t].pc = "assign"
    /\ profiles' = task[t].res.val
    /\ Set(t, [task[t] EXCEPT !.pc = "ret", !.res = Ok(profiles')])
    /\ UNCHANGED <<file, lock, calls>>
    /\ SharedUnchanged

\* apply_profile: profiles.iter().find(|p| p.id == profile_id)
Find(t) ==
    /\ task[t].pc = "find"
    /\ LET pos == PositionById(profiles, task[t].arg.id)
       IN IF pos # 0
          THEN Set(t, [task[t] EXCEPT !.pc = "display", !.rec = profiles[pos]])
          ELSE Set(t, [task[t] EXCEPT !.pc = "ret", !.res = Err(NotFound)])
    /\ UNCHANGED <<profiles, file, lock, calls>>
    /\ SharedUnchanged

\* apply_profile: apply_display_settings(&profile.displays)?
Display(t) ==
    /\ task[t].pc = "display"
    /\ \E dOut \in DisplayOutcomes(platform) :
         LET d == apply_display_settings(platform, task[t].rec.displays, dOut)
         IN Set(t, [task[t] EXCEPT !.pc = IF d.res.ok THEN "audio" ELSE "ret",
                                   !.res = d.res, !.env.dOut = dOut])
    /\ UNCHANGED <<profiles, file, lock, calls>>
    /\ SharedUnchanged

\* apply_profile: apply_audio_settings(&profile.audio_settings)?
Audio(t) ==
    /\ task[t].pc = "audio"
    /\ \E aOut \in AudioOutcomes(platform),
          psOut \in PowershellOutcomes(platform) :
         LET a == apply_audio_settings(platform, task[t].rec.audio_settings,
                                       aOut, psOut)
         IN Set(t, [task[t] EXCEPT !.pc = "ret", !.res = a.res,
                                   !.env.aOut = aOut, !.env.psOut = psOut])
    /\ UNCHANGED <<profiles, file, lock, calls>>
    /\ SharedUnchanged

\* the command returns and the guard is dropped
Return(t) ==
    /\ task[t].pc = "ret"
    /\ lock' = IF lock = t THEN 0 ELSE lock
    /\ Set(t, IdleTask)
    /\ UNCHANGED <<profiles, file, calls>>
    /\ SharedUnchanged

\* the steps a task takes on its own once its command is invoked
Run(t) ==
    \/ Lock(t)
    \/ Mutate(t)
    \/ Persist(t)
    \/ Load(t)
    \/ Assign(t)
    \/ Find(t)
    \/ Display(t)
    \/ Audio(t)
    \/ Return(t)

ConcNext == \E t \in Tasks : Invoke(t) \/ Run(t)

\* An invoked command is a task of the runtime's thread pool: the scheduler
\* runs it whenever it can take a step, and every helper process it waits
\* for exits.  Nothing obliges the GUI shell to invoke anything.
ConcSpec ==
    /\ ConcInit
    /\ [][ConcNext]_vars
    /\ \A t \in Tasks : WF_vars(Run(t))

(***************************************************************************)
(* Properties of the store commands.                                       *)
(***************************************************************************)
HasId(ps, id) == \E i \in 1..Len(ps) : ps[i].id = id

UniqueIds(ps) ==
    \A i, j \in 1..Len(ps) : ps[i].id = ps[j].id => i = j

\* C1: save_profile of a Profile whose id is already in the collection
\* replaces one record with that id at its index and leaves the length and
\* every other record as they were; with no such id the Profile is appended
\* and the earlier records are unchanged.
C1_UpsertById ==
    [][last'.op = "save_profile" =>
         LET p == last'.arg
         IN IF HasId(profiles, p.id)
            THEN \E i \in 1..Len(profiles) :
                    /\ profiles[i].id = p.id
                    /\ Len(profiles') = Len(profiles)
                    /\ profiles'[i] = p
                    /\ \A j \in 1..Len(profiles) :
                          j # i => profiles'[j] = profiles[j]
            ELSE /\ Len(profiles') = Len(profiles) + 1
                 /\ profiles'[Len(profiles')] = p
                 /\ \A j \in 1..Len(profiles) : profiles'[j] = profiles[j]]_vars

\* a record other than the last one was replaced in a two-record collection
C1_Witness ==
    /\ last.op = "save_profile"
    /\ last.pos = 1
    /\ Len(profiles) = 2
    /\ profiles[1] = last.arg
    /\ profiles[2].id # last.arg.id

\* C2: in every store state, for every Profile p, save_profile(p) twice
\* leaves the same in-memory collection as save_profile(p) once, whatever
\* the writes do, and the same backing file when the writes succeed.
C2_UpsertIdempotent ==
    \A p \in ProfileInputs, io1 \in IoOutcomes, io2 \in IoOutcomes :
        LET once == save_profile(Store(profiles, file), p, io1)
            twice == save_profile(Store(once.profiles, once.file), p, io2)
        IN /\ twice.profiles = once.profiles
           /\ (io1 = "ok" /\ io2 = "ok") =>
                 /\ twice.file = once.file
                 /\ twice.res = once.res

\* the same Profile was saved twice in a row, into a collection of two
C2_Witness ==
    /\ last.op = "save_profile"
    /\ last.rep
    /\ last.res.ok
    /\ Len(profiles) = 2

\* C3 as claimed: delete_profile of an id that matches no record leaves the
\* collection unchanged and returns success.
C3_DeleteAbsentSucceeds ==
    [][(last'.op = "delete_profile" /\ ~HasId(profiles, last'.arg.id)) =>
         (profiles' = profiles /\ last'.res.ok)]_vars

\* C3 amended: delete_profile of an id that matches no record leaves the
\* in-memory collection unchanged and still rewrites the backing file, so
\* it returns success exactly when that write succeeds (the absent id is
\* never the error); and delete_profile twice leaves the same in-memory
\* collection as once, and the same file when the writes succeed.
C3_DeleteAbsent ==
    /\ [][(last'.op = "delete_profile" /\ ~HasId(profiles, last'.arg.id)) =>
            /\ profiles' = profiles
            /\ last'.res.ok <=> last'.env.io = "ok"
            /\ last'.res.ok => file' = FileText(to_string_pretty(profiles))
            /\ ~last'.res.ok => last'.res.err # NotFound]_vars
    /\ [](\A id \in Ids, io1 \in IoOutcomes, io2 \in IoOutcomes :
            LET once == delete_profile(Store(profiles, file), id, io1)
                twice == delete_profile(Store(once.profiles, once.file), id, io2)
            IN /\ twice.profiles = once.profiles
               /\ (io1 = "ok" /\ io2 = "ok") => twice.file = once.file)

\* the same id was deleted twice in a row; the second call removed nothing
\* from a collection that holds a record
C3_Witness ==
    /\ last.op = "delete_profile"
    /\ last.rep
    /\ last.removed = 0
    /\ last.res.ok
    /\ profiles # <<>>

\* C4: apply_profile of an id absent from the store returns the not-found
\* error, runs neither apply step, spawns no helper, and leaves the
\* collection and the backing file as they were.
C4_ApplyNotFound ==
    [][(last'.op = "apply_profile" /\ ~HasId(profiles, last'.arg.id)) =>
         /\ last'.res = Err(NotFound)
         /\ last'.steps = <<>>
         /\ last'.spawned = <<>>
         /\ last'.warns = 0
         /\ profiles' = profiles
         /\ file' = file]_vars

\* an absent id was applied to a store that holds another record
C4_Witness ==
    /\ last.op = "apply_profile"
    /\ ~HasId(profiles, last.arg.id)
    /\ profiles # <<>>
    /\ last.res = Err(NotFound)

FileUnique(f) ==
    LET loaded == load_profiles(f)
    IN loaded.ok => UniqueIds(loaded.val)

\* C6 as claimed: in every reachable state no two records of the in-memory
\* collection have the same id.
C6_AlwaysUnique == UniqueIds(profiles)

\* C6 amended: ids are unique as long as the backing file, which is loaded
\* unchecked at startup and by get_profiles, holds no duplicate id: the
\* collection loaded at startup has unique ids when the file has, and no
\* command introduces a duplicate into the collection or the file.
C6_UniqueIfFileUnique ==
    /\ []((last.op = "none" /\ FileUnique(file)) => UniqueIds(profiles))
    /\ [][(UniqueIds(profiles) /\ FileUnique(file)) =>
            (UniqueIds(profiles') /\ FileUnique(file'))]_vars

\* an existing id was saved again into a collection of two distinct ids
C6_Witness ==
    /\ last.op = "save_profile"
    /\ last.pos # 0
    /\ Len(profiles) = 2
    /\ UniqueIds(profiles)
    /\ FileUnique(file)
    /\ load_profiles(file) = Ok(profiles)

\* C7: from an empty store, after save_profile of a profile with id "a"
\* get_profiles returns exactly one record, with id "a"; after a following
\* delete_profile("a") get_profiles returns the empty list; a following
\* apply_profile("a") fails with the not-found error.
C7_Scenario ==
    /\ scen = 2 => /\ last.op = "get_profiles"
                   /\ last.res.ok
                   /\ Len(last.res.val) = 1
                   /\ last.res.val[1].id = "a"
    /\ scen = 4 => /\ last.op = "get_profiles"
                   /\ last.res = Ok(<<>>)
    /\ scen = 5 => /\ last.op = "apply_profile"
                   /\ last.res = Err(NotFound)

\* the whole scenario has run
C7_Witness == scen = 5

\* C9 as claimed: on Windows, with an output device given, nircmd is tried
\* first; whenever nircmd fails (not spawned, or non-zero exit) PowerShell
\* is tried next; and apply_audio_settings returns success in every case.
C9_WindowsFallback ==
    (/\ platform = "windows"
     /\ last.op = "apply_profile"
     /\ Len(last.steps) = 2
     /\ last.steps[2].input.output_device.tag = "Some")
    => /\ last.steps[2].ok
       /\ Len(last.spawned) >= 1
       /\ last.spawned[1].cmd = "nircmd"
       /\ last.env.aOut = "exit_ok" => Len(last.spawned) = 1
       /\ last.env.aOut # "exit_ok" =>
             /\ Len(last.spawned) = 2
             /\ last.spawned[2].cmd = "powershell"

\* C10: apply_profile of an id in the store runs the display step first,
\* on the record's displays, and the audio step, on the record's audio
\* settings, only after the display step returned success; a display error
\* is returned without running the audio step; an audio error is returned
\* with nothing run after it; success means both steps succeeded; the
\* store is not touched.
C10_ApplyOrder ==
    [][(last'.op = "apply_profile" /\ HasId(profiles, last'.arg.id)) =>
         LET steps == last'.steps
             rec == profiles[CHOOSE i \in 1..Len(profiles) :
                        /\ profiles[i].id = last'.arg.id
                        /\ \A j \in 1..(i - 1) : profiles[j].id # last'.arg.id]
         IN /\ Len(steps) \in {1, 2}
            /\ steps[1].step = "display"
            /\ steps[1].input = rec.displays
            /\ steps[1].ok <=> Len(steps) = 2
            /\ steps[1].ok <=>
                  (platform = "macos" => last'.env.dOut = "exit_ok")
            /\ Len(steps) = 2 =>
                  /\ steps[2].step = "audio"
                  /\ steps[2].input = rec.audio_settings
                  /\ last'.res.ok <=> steps[2].ok
            /\ Len(steps) = 1 =>
                  /\ ~last'.res.ok
                  /\ \A k \in 1..Len(last'.spawned) :
                        last'.spawned[k].cmd = "displayplacer"
            /\ last'.res.ok <=> \A k \in 1..Len(steps) : steps[k].ok
            /\ platform = "macos" =>
                  /\ Len(last'.spawned) >= 1
                  /\ last'.spawned[1].cmd = "displayplacer"
                  /\ \A k \in 2..Len(last'.spawned) :
                        last'.spawned[k].cmd = "SwitchAudioSource"
                  /\ Len(last'.spawned) <= 2
            /\ profiles' = profiles
            /\ file' = file]_vars

\* on macOS the audio step failed after the display step had succeeded
C10_Witness ==
    /\ platform = "macos"
    /\ last.op = "apply_profile"
    /\ Len(last.steps) = 2
    /\ last.steps[1].ok
    /\ ~last.steps[2].ok
    /\ ~last.res.ok
    /\ Len(last.spawned) = 2

\* C11 as claimed: whenever save_profile, delete_profile or get_profiles
\* returns success the in-memory collection equals the collection stored
\* in the backing file (the empty one when there is no file), and whenever
\* one of them returns an error the in-memory collection is the one from
\* before the call.
C11_MemoryDiskAgreement ==
    [][last'.op \in {"save_profile", "delete_profile", "get_profiles"} =>
         /\ last'.res.ok => load_profiles(file') = Ok(profiles')
         /\ ~last'.res.ok => profiles' = profiles]_vars

(***************************************************************************)
(* Properties of the concurrent commands.                                  *)
(***************************************************************************)
\* between lock() returning and the command returning
InBody(t) == task[t].pc \notin {"idle", "lock"}

\* what the command of task t does when run alone on the store it found
\* when it took the lock
Alone(t) ==
    LET c == task[t]
    IN CASE c.op = "save_profile" -> save_profile(c.snap, c.arg, c.env.io)
         [] c.op = "delete_profile" ->
               delete_profile(c.snap, c.arg.id, c.env.io)
         [] c.op = "get_profiles" -> get_profiles(c.snap)
         [] OTHER -> apply_profile(c.snap, platform, c.arg.id, c.env.dOut,
                                   c.env.aOut, c.env.psOut)

MutualExclusion ==
    /\ \A t1, t2 \in Tasks : (InBody(t1) /\ InBody(t2)) => t1 = t2
    /\ \A t \in Tasks : InBody(t) <=> lock = t

\* a returning command leaves the store, and returns the result, it would
\* have with no other command running
SerialOutcome ==
    \A t \in Tasks :
        task[t].pc = "ret" =>
            /\ profiles = Alone(t).profiles
            /\ file = Alone(t).file
            /\ task[t].res = Alone(t).res

\* while a command is not finished some task can take a step
NoDeadlock ==
    (\E t \in Tasks : task[t].pc # "idle") => \E t \in Tasks : ENABLED Run(t)

\* C8: each store command holds the one lock from its first access of the
\* collection until it returns: at most one command is in its body; while
\* it is, no other task's step touches the collection or the file; each
\* command's outcome is that of running alone, so the whole is a serial
\* order; some task can always step; and every invoked command returns.
C8_Serialized ==
    /\ [](MutualExclusion /\ SerialOutcome /\ NoDeadlock)
    /\ [][/\ \A t \in Tasks :
               (InBody(t) /\ task'[t] = task[t]) =>
                   (profiles' = profiles /\ file' = file /\ lock' = lock)
          /\ (profiles' # profiles \/ file' # file) =>
               \E t \in Tasks : lock = t /\ lock' = t /\ task'[t] # task[t]]_vars
    /\ \A t \in Tasks : (task[t].pc = "lock") ~> (task[t].pc = "idle")

\* one task stands between its in-memory change and its file write, holding
\* the lock, while the other waits in lock()
C8_Witness ==
    \E t1, t2 \in Tasks :
        /\ task[t1].pc = "persist"
        /\ lock = t1
        /\ profiles # task[t1].snap.profiles
        /\ task[t2].pc = "lock"
        /\ task[t2].op = "get_profiles"

====
